---- MODULE Spec2Model ----
(***************************************************************************)
(* Similarity/ranking engine of the JIRA similarity tool                   *)
(* (src/jira_similarity_tool.py): text normalisation, keyword and subject  *)
(* term extraction, the weighted pair score, and analyze_similarity's      *)
(* query planning, candidate collection, subject gate, ranking and         *)
(* one-shot relaxed retry.                                                 *)
(*                                                                         *)
(* Text is modelled character by character on TLA+ strings (Len, SubSeq    *)
(* and \o on strings).  Scores and thresholds are integers in millionths   *)
(* (the code rounds every score to 6 decimal places).                      *)
(***************************************************************************)
EXTENDS Integers, Sequences, FiniteSets, TLC

(* ------------------------------------------------------------------ *)
(* Characters and Python string primitives                            *)
(* ------------------------------------------------------------------ *)

Char(s, i) == SubSeq(s, i, i)

CharsOf(s) == { Char(s, i) : i \in 1..Len(s) }

UpperCase == "ABCDEFGHIJKLMNOPQRSTUVWXYZ"

LowerCase == "abcdefghijklmnopqrstuvwxyz"

DigitString == "0123456789"

UpperLetters == CharsOf(UpperCase)

LowerLetters == CharsOf(LowerCase)

DigitChars == CharsOf(DigitString)

\* \s of the re module (ASCII part)
Whitespace == {" ", "\t", "\n", "\r", "\f"}

\* \w of the re module (ASCII part)
WordChars == UpperLetters \cup LowerLetters \cup DigitChars \cup {"_"}

SetMin(S) == CHOOSE x \in S : \A y \in S : x <= y

SetMax(S) == CHOOSE x \in S : \A y \in S : x >= y

Max2(a, b) == IF a >= b THEN a ELSE b

Abs(a) == IF a >= 0 THEN a ELSE -a

ToLower == [c \in UpperLetters |->
              Char(LowerCase, CHOOSE i \in 1..Len(UpperCase) : Char(UpperCase, i) = c)]

lower_char(c) == IF c \in UpperLetters THEN ToLower[c] ELSE c

\* the element of a one-element set; { F(v) : v \in {e} } evaluates e once and
\* binds v to its value
Only(S) == CHOOSE v \in S : TRUE

SeqToSet(q) == { q[i] : i \in 1..Len(q) }

\* ''.join(pieces[lo..hi]), by halving
RECURSIVE str_join(_, _, _)
str_join(pieces, lo, hi) ==
  IF lo > hi THEN ""
  ELSE IF lo = hi THEN pieces[lo]
  ELSE LET mid == (lo + hi) \div 2
       IN  str_join(pieces, lo, mid) \o str_join(pieces, mid + 1, hi)

\* ''.join(pieces)
str_of(pieces) == Only({ str_join(p, 1, Len(p)) : p \in { pieces } })

lower_piece(s, i) == lower_char(Char(s, i))

\* str.lower()
str_lower(s) == str_of([i \in 1..Len(s) |-> lower_piece(s, i)])

\* the positions at which old occurs in s
occurrences(s, old) ==
  { i \in 1..(Len(s) - Len(old) + 1) : SubSeq(s, i, i + Len(old) - 1) = old }

RECURSIVE replace_from(_, _, _, _, _)
replace_from(s, old, new, occ, i) ==
  LET rest == { p \in occ : p >= i }
  IN  IF rest = {} THEN SubSeq(s, i, Len(s))
      ELSE LET p == SetMin(rest)
           IN  SubSeq(s, i, p - 1) \o new \o replace_from(s, old, new, occ, p + Len(old))

\* str.replace(old, new) for a non-empty old: leftmost, non-overlapping
str_replace(s, old, new) ==
  Only({ replace_from(s, old, new, occ, 1) : occ \in { occurrences(s, old) } })

\* sub in s
str_contains(s, sub) == occurrences(s, sub) # {}

\* str.strip()
str_strip(s) ==
  LET idx == { i \in 1..Len(s) : Char(s, i) \notin Whitespace }
  IN  IF idx = {} THEN "" ELSE SubSeq(s, SetMin(idx), SetMax(idx))

\* the positions where a maximal run of non-whitespace characters starts
word_starts(s) ==
  { i \in 1..Len(s) : /\ Char(s, i) \notin Whitespace
                      /\ (i = 1 \/ Char(s, i - 1) \in Whitespace) }

\* the last position of the run that starts at i
word_end(s, i) ==
  SetMin({ j \in i..Len(s) : j = Len(s) \/ Char(s, j + 1) \in Whitespace })

\* str.split(): the maximal runs of non-whitespace characters, in order
str_split(s) ==
  LET starts == word_starts(s)
      kth(k) == CHOOSE p \in starts : Cardinality({ q \in starts : q < p }) = k - 1
  IN  [k \in 1..Cardinality(starts) |-> SubSeq(s, kth(k), word_end(s, kth(k)))]

\* str.isalnum() on ASCII text
str_isalnum(s) ==
  Len(s) > 0 /\ \A i \in 1..Len(s) : Char(s, i) \in LowerLetters \cup UpperLetters \cup DigitChars

special_piece(s, i) ==
  IF Char(s, i) \in WordChars \cup Whitespace \cup {"-"} THEN Char(s, i) ELSE " "

\* re.sub(r'[^\w\s-]', ' ', text)
sub_special(s) == str_of([i \in 1..Len(s) |-> special_piece(s, i)])

spaces_piece(s, i) ==
  IF Char(s, i) \in Whitespace
  THEN (IF i > 1 /\ Char(s, i - 1) \in Whitespace THEN "" ELSE " ")
  ELSE Char(s, i)

\* re.sub(r'\s+', ' ', text)
sub_spaces(s) == str_of([i \in 1..Len(s) |-> spaces_piece(s, i)])

(* ------------------------------------------------------------------ *)
(* SimilarityAnalyzer: vocabularies                                   *)
(* ------------------------------------------------------------------ *)

stop_words ==
  {
    "the", "a", "an", "and", "or", "but", "in", "on", "at", "to", "for", "of",
    "with", "by", "is", "are", "was", "were", "be", "been", "being", "have",
    "has", "had", "do", "does", "did", "will", "would", "could", "should",
    "may", "might", "must", "can", "this", "that", "these", "those", "from",
    "up", "about", "into", "through", "during", "before", "after", "above",
    "below", "out", "off", "over", "under", "again", "further", "then",
    "once", "here", "there", "when", "where", "why", "how", "all", "any",
    "both", "each", "few", "more", "most", "other", "some", "such", "no",
    "nor", "not", "only", "own", "same", "so", "than", "too", "very", "you",
    "your", "yours", "yourself", "yourselves", "i", "me", "my", "myself",
    "we", "our", "ours", "ourselves", "what", "which", "who", "whom", "am",
    "having", "doing", "shall", "ticket", "issue", "bug", "feature", "story",
    "task", "epic", "incident", "request", "problem", "error", "failure",
    "broken", "fixed", "resolved", "closed", "open", "pending", "in progress",
    "done", "blocked", "ready", "test", "testing", "deploy", "deployment",
    "release", "version", "build", "code", "codebase", "repository", "branch",
    "merge", "commit", "push", "pull", "review", "approve", "reject",
    "comment", "update", "create", "delete", "modify", "change", "add",
    "remove", "implement", "develop", "design", "plan", "document",
    "documentation", "user", "customer", "client", "team", "developer",
    "tester", "analyst", "manager", "admin"
  }

technical_terms ==
  {
    "api", "database", "server", "client", "frontend", "backend", "ui", "ux",
    "authentication", "authorization", "login", "logout", "session", "token",
    "password", "encryption", "security", "ssl", "https", "http", "rest",
    "json", "xml", "sql", "query", "table", "index", "cache", "memory", "cpu",
    "disk", "network", "connection", "timeout", "error", "exception", "crash",
    "hang", "freeze", "slow", "performance", "latency", "throughput",
    "bandwidth", "load", "stress", "test", "unit", "integration",
    "deployment", "production", "staging", "development", "environment",
    "configuration", "setting", "parameter", "variable", "function", "method",
    "class", "object", "interface", "module", "component", "service",
    "library", "framework", "plugin", "extension", "addon", "widget",
    "button", "form", "input", "output", "data", "file", "upload", "download",
    "import", "export", "sync", "async", "thread", "process", "job", "task",
    "queue", "message", "event", "trigger", "callback", "hook", "webhook",
    "notification", "alert", "log", "logging", "monitor", "dashboard",
    "report", "analytics", "metric", "statistic", "chart", "graph",
    "visualization", "display", "render", "browser", "mobile", "desktop",
    "app", "application", "website", "web", "cloud", "aws", "azure", "gcp",
    "docker", "container", "kubernetes", "microservice", "monolith",
    "architecture", "pattern", "design", "model", "conversational", "chatbot",
    "bot", "nlp", "natural", "language", "processing", "intent", "entity",
    "utterance", "response", "dialog", "conversation", "chat", "voice",
    "speech", "recognition", "asr", "tts", "text", "synthesis", "validation",
    "testing", "scenario", "flow", "workflow", "pipeline", "training", "ai",
    "machine", "learning", "ml", "algorithm", "confidence", "accuracy",
    "precision", "recall", "f1", "score", "false", "positive", "negative",
    "true", "threshold", "sensitivity", "specificity", "roc", "auc", "curve",
    "dataset", "split", "cross", "fold", "overfitting", "underfitting",
    "bias", "variance", "regularization", "feature", "engineering",
    "preprocessing", "normalization", "standardization", "tokenization",
    "lemmatization", "stemming", "stop", "words", "n-gram", "bag", "tfidf",
    "word2vec", "glove", "bert", "transformer", "attention", "mechanism",
    "encoder", "decoder", "sequence", "recurrent", "neural", "rnn", "lstm",
    "gru", "cnn", "convolutional", "deep", "supervised", "unsupervised",
    "semi", "reinforcement", "clustering", "classification", "regression",
    "prediction", "forecasting", "anomaly", "detection", "outlier",
    "computer", "vision", "image", "segmentation", "face", "optical",
    "character", "ocr", "extraction", "document", "information", "retrieval",
    "search", "engine", "indexing", "ranking", "relevance", "similarity",
    "recommendation", "system", "collaborative", "filtering", "content",
    "based", "hybrid", "personalization", "customization", "adaptation",
    "context", "aware", "situational", "awareness", "environmental", "user",
    "profile", "preference", "behavior", "interaction", "engagement",
    "retention", "conversion", "churn", "lifetime", "value", "ltv", "roi",
    "kpi", "insight", "reporting", "real", "time", "streaming", "batch",
    "etl", "extract", "transform", "warehouse", "lake", "big", "distributed",
    "computing", "mapreduce", "hadoop", "spark", "kafka", "stream", "driven",
    "microservices", "gateway", "mesh", "balancer", "circuit", "breaker",
    "retry", "fallback", "graceful", "degradation", "fault", "tolerance",
    "high", "availability", "scalability", "optimization", "caching",
    "sharding", "partitioning", "replication", "backup", "recovery",
    "disaster", "business", "continuity", "privacy", "gdpr", "compliance",
    "audit", "monitoring", "alerting", "devops", "ci", "cd", "continuous",
    "containerization", "orchestration", "swarm", "infrastructure", "as",
    "code", "terraform", "ansible", "chef", "puppet", "native", "serverless",
    "lambda", "edge", "fog", "systems", "databases", "nosql", "mongodb",
    "cassandra", "redis", "elasticsearch", "solr", "lucene", "inverted",
    "full", "neo4j", "graphql", "schema", "soap", "grpc", "protocol",
    "buffers", "serialization", "deserialization", "marshalling",
    "unmarshalling", "rabbitmq", "activemq", "pub", "sub", "sourcing", "cqrs",
    "command", "responsibility", "segregation", "domain", "ddd", "bounded",
    "aggregate", "repository", "factory", "strategy", "observer", "decorator",
    "adapter", "facade", "proxy", "singleton", "builder", "template", "state",
    "chain", "interpreter", "iterator", "mediator", "memento", "flyweight",
    "abstract", "bridge", "composite", "visitor", "prototype"
  }

generic_phrases ==
  << "not functioning", "not working", "as expected", "unexpected", "issue with",
     "error occurred", "failed", "failure", "failing", "throws error", "showing error" >>

noise_words ==
  { "http", "https", "www", "com", "org", "net", "io", "co", "uk", "us" }

always_keep ==
  { "test", "testing", "validation", "fail", "failure", "error", "bug", "issue",
    "bot", "conversational", "conversation" }

heads ==
  { "node", "flag", "field", "feature", "event", "function", "handler", "endpoint", "api",
    "parameter", "property", "setting", "toggle", "connector", "channel", "task", "job",
    "queue", "session", "token", "key", "header", "intent", "entity", "language", "locale",
    "analytics", "dashboard", "report", "metric", "filter", "log", "usage", "userid", "summary",
    "console", "import", "migration", "genai", "llm", "openai", "gpt", "dialoggpt", "searchai",
    "websdk" }

subject_phrases ==
  { "goal completion rate", "performance dashboard", "user id filter", "userid filter",
    "usage logs", "gen ai node", "dialog gpt", "openai connector", "admin console",
    "full bot import" }

(* ------------------------------------------------------------------ *)
(* SimilarityAnalyzer: text functions                                 *)
(* ------------------------------------------------------------------ *)

RECURSIVE strip_phrases(_, _)
strip_phrases(text, k) ==
  IF k > Len(generic_phrases) THEN text
  ELSE Only({ strip_phrases(t, k + 1) : t \in { str_replace(text, generic_phrases[k], " ") } })

preprocess_text(text) ==
  IF text = "" THEN ""
  ELSE Only({ str_strip(sub_spaces(sub_special(t))) :
                t \in { strip_phrases(l, 1) : l \in { str_lower(text) } } })

keep_keyword_listed_first(word) ==
  \/ word \in technical_terms \cup always_keep
  \/ /\ ~(word \in stop_words \/ Len(word) < 2)
     /\ word \notin noise_words
     /\ Len(word) >= 3

keep_keyword(word) ==
  /\ ~(word \in stop_words \/ Len(word) < 2)
  /\ word \notin noise_words
  /\ (word \in technical_terms \/ Len(word) >= 3 \/ word \in always_keep)

\* the list of kept words, in text order, duplicates included
extract_keywords(text) == SelectSeq(str_split(preprocess_text(text)), keep_keyword)

extract_subject_terms(text) ==
  LET processed == preprocess_text(text)
      tokens == str_split(processed)
      n == Len(tokens)
  IN  { tokens[i] : i \in { j \in 1..n : tokens[j] \in heads } }
      \cup { tokens[i] \o " " \o tokens[i + 1] :
               i \in { j \in 1..(n - 1) : tokens[j] \in heads } }
      \cup { tokens[i - 1] \o " " \o tokens[i] :
               i \in { j \in 2..n : tokens[j] \in heads } }
      \cup { tokens[i] \o " " \o tokens[i + 1] :
               i \in { j \in 1..(n - 1) : tokens[j + 1] \in heads } }
      \cup { phrase \in subject_phrases : str_contains(processed, phrase) }
      \cup { tokens[i] :
               i \in { j \in 1..n : /\ (str_contains(tokens[j], "-") \/ str_isalnum(tokens[j]))
                                    /\ Len(tokens[j]) > 3
                                    /\ tokens[j] \notin stop_words } }

(* ------------------------------------------------------------------ *)
(* Tickets and the texts the model draws from                         *)
(* ------------------------------------------------------------------ *)

\* number of summaries the scored pairs are drawn from
NumSummaries == 9

\* number of descriptions the scored pairs are drawn from
NumDescriptions == 3

\* number of metadata variants the scored pairs are drawn from
NumMetadata == 2

\* number of target tickets the lookup can return
NumTargets == 6

\* number of tickets the backend can return
NumBackend == 8

\* largest number of tickets all search calls of one analysis return together
MaxPool == 2

\* largest max_results passed to analyze_similarity
MaxResultsBound == 2

\* number of iteration orders of the query set that are explored
NumOrders == 2

\* failed search requests per call of analyze_similarity
MaxFailures == 2

Summaries ==
  << "DialogGPT: Repeat Response Event firing incorrectly for imported app",
     "DialogGPT task failure event",
     "Admin console migration import",
     "",
     "The bug is fixed",
     "Dialog GPT event not,working",
     "Event firing twice for imported app",
     "API timeout",
     "Webhook event failed to fire",
     "UI  login-page crash",
     "Failedover unexpectedly: issue with Node_1 (v2.0)!",
     "App",
     "API  timeout",
     "Task",
     "Task failure" >>

Descriptions ==
  << "", "timeout", "Event fails; API timeout as expected", "the",
     "not  working\tGen AI node -- usage logs",
     "timeout response event app" >>

Metadata ==
  << [issue_type |-> "Bug", priority |-> "High", project |-> "PLAT",
      labels |-> {}, components |-> {}],
     [issue_type |-> "Customer-Incident", priority |-> "Low", project |-> "XOP",
      labels |-> {"regression"}, components |-> {"bots", "nlp"}],
     [issue_type |-> "Bug", priority |-> "Low", project |-> "PLAT",
      labels |-> {"regression", "ga"}, components |-> {"bots"}] >>

\* JIRATicket(...)
JIRATicket(key, summary, description, status, meta) ==
  [key |-> key, summary |-> summary, description |-> description,
   issue_type |-> meta.issue_type, priority |-> meta.priority, status |-> status,
   labels |-> meta.labels, components |-> meta.components, project |-> meta.project]

Prefix(q, n) == { q[i] : i \in 1..(IF n <= Len(q) THEN n ELSE Len(q)) }

\* the tickets calculate_similarity is applied to
ScoreTickets ==
  { JIRATicket("PLAT-1", s, d, "Open", m) :
      s \in Prefix(Summaries, NumSummaries),
      d \in Prefix(Descriptions, NumDescriptions),
      m \in Prefix(Metadata, NumMetadata) }

\* the tickets get_ticket can return for the analysed key
TargetTickets ==
  << JIRATicket("PLAT-X", Summaries[1], "", "Open", Metadata[1]),
     JIRATicket("PLAT-X", Summaries[8], "", "Open", Metadata[1]),
     JIRATicket("PLAT-X", Summaries[4], "", "Open", Metadata[1]),
     JIRATicket("PLAT-X", Summaries[5], "timeout", "Open", Metadata[1]),
     JIRATicket("PLAT-X", Summaries[1], "timeout", "Open", Metadata[1]),
     JIRATicket("PLAT-X", Summaries[7], "", "Open", Metadata[1]),
     JIRATicket("PLAT-X", Summaries[9], "", "Open", Metadata[1]) >>

\* the tickets the search calls can return
BackendTickets ==
  << JIRATicket("PLAT-Y", Summaries[2], "", "Closed", Metadata[1]),
     JIRATicket("PLAT-Z", Summaries[3], "", "Open", Metadata[1]),
     JIRATicket("PLAT-X", Summaries[1], "", "Open", Metadata[1]),
     JIRATicket("PLAT-W", Summaries[7], "", "Resolved", Metadata[2]),
     JIRATicket("PLAT-Y", Summaries[9], "", "Closed", Metadata[1]),
     JIRATicket("PLAT-V", Summaries[6], "", "Open", Metadata[1]),
     JIRATicket("PLAT-T", Summaries[12], Descriptions[6], "Open", Metadata[1]),
     JIRATicket("PLAT-U", Summaries[8], "timeout", "Done", Metadata[1]),
     JIRATicket("PLAT-S", Summaries[10], "", "Open", Metadata[1]) >>

\* metadata of a ticket outside the issue types of the constrained search
StoryMetadata ==
  [issue_type |-> "Story", priority |-> "Low", project |-> "PLAT",
   labels |-> {}, components |-> {}]

\* the tickets of a backend with fixed contents, in the order it lists them
StoreTickets ==
  << JIRATicket("PLAT-B", Summaries[13], "", "Closed", Metadata[1]),
     JIRATicket("PLAT-X", Summaries[8], "", "Open", Metadata[1]),
     JIRATicket("PLAT-A", Summaries[8], "", "Resolved", Metadata[2]),
     JIRATicket("PLAT-K", Summaries[14], "", "Open", StoryMetadata),
     JIRATicket("PLAT-Q", Summaries[15], "", "Open", StoryMetadata) >>

Targets == Prefix(TargetTickets, NumTargets)

Backend == Prefix(BackendTickets, NumBackend)

\* thresholds passed to analyze_similarity, in millionths
Thresholds == { 0, 50000, 200000, 300000, 500000 }

\* extract_keywords and extract_subject_terms of the texts above, evaluated once
KnownTexts ==
  SeqToSet(Summaries) \cup SeqToSet(Descriptions)
  \cup { t.summary \o " " \o t.description :
           t \in SeqToSet(TargetTickets) \cup SeqToSet(StoreTickets) }

KeywordTable == [t \in KnownTexts |-> extract_keywords(t)]

SubjectTable == [t \in KnownTexts |-> extract_subject_terms(t)]

keywords_of(text) == KeywordTable[text]

subject_terms_of(text) == SubjectTable[text]

(* ------------------------------------------------------------------ *)
(* SimilarityAnalyzer.calculate_similarity                            *)
(* ------------------------------------------------------------------ *)

\* weights of the final score, in hundredths
SubjectWeight == 50

\* the summary weighted like the subject
SummaryWeightAsSubject == SubjectWeight

SummaryWeight == 35

TechWeight == 10

JaccardWeight == 5

\* the metadata terms weighted like the Jaccard term
MetadataWeightAsJaccard == JaccardWeight

MetadataWeight == 0

LengthBonus == 1

\* millionths per hundredth
Scale == 10000

\* the overlap divided by the size of the first set only
overlap_ratio_of_first(a, b) ==
  IF Cardinality(a \cup b) > 0
  THEN << Cardinality(a \cap b), Max2(Cardinality(a), 1) >>
  ELSE << 0, 1 >>

\* |a & b| / |a | b| if the union is non-empty else 0.0, as <<numerator, denominator>>
overlap_ratio(a, b) ==
  IF Cardinality(a \cup b) > 0
  THEN << Cardinality(a \cap b), Cardinality(a \cup b) >>
  ELSE << 0, 1 >>

\* len(a & b) / max(len(a), len(b), 1), as <<numerator, denominator>>
max_ratio(a, b) ==
  << Cardinality(a \cap b), Max2(Max2(Cardinality(a), Cardinality(b)), 1) >>

\* 1.0 if a == b else 0.0, as <<numerator, denominator>>
match_ratio(a, b) == IF a = b THEN << 1, 1 >> ELSE << 0, 1 >>

\* length_similarity < 0.8
length_bonus_applies_inverted(len1, len2) ==
  5 * Abs(len1 - len2) > Max2(Max2(len1, len2), 1)

\* length_similarity >= 0.8
length_bonus_applies_inclusive(len1, len2) ==
  5 * Abs(len1 - len2) <= Max2(Max2(len1, len2), 1)

\* length_similarity > 0.8, with
\* length_similarity = 1.0 - abs(len1 - len2) / max(len1, len2, 1)
length_bonus_applies(len1, len2) ==
  5 * Abs(len1 - len2) < Max2(Max2(len1, len2), 1)

RECURSIVE gcd(_, _)
gcd(a, b) == IF b = 0 THEN a ELSE gcd(b, a % b)

lcm(a, b) == (a \div gcd(a, b)) * b

\* a common denominator of the ratios
RECURSIVE common_den(_)
common_den(rs) == IF rs = << >> THEN 1 ELSE lcm(Head(rs)[2], common_den(Tail(rs)))

\* sum of weights[i] * ratios[i], as the numerator over den
RECURSIVE weighted_sum(_, _, _)
weighted_sum(ratios, weights, den) ==
  IF ratios = << >> THEN 0
  ELSE Head(weights) * Head(ratios)[1] * (den \div Head(ratios)[2])
       + weighted_sum(Tail(ratios), Tail(weights), den)

\* round(num / den, 6) for num / den in hundredths, as an integer number of
\* millionths: the nearest one, ties to the even one
round6(num, den) ==
  LET whole == num \div den
      frac == (num % den) * Scale
      q == frac \div den
      r == frac % den
  IN  whole * Scale
      + (IF 2 * r > den THEN q + 1
         ELSE IF 2 * r < den THEN q
         ELSE IF q % 2 = 0 THEN q ELSE q + 1)

\* the early return left out
no_keywords_unchecked(keywords1, keywords2) == FALSE

\* not keywords1 and not keywords2
no_keywords(keywords1, keywords2) == keywords1 = {} /\ keywords2 = {}

\* the score in millionths
calculate_similarity(ticket1, ticket2) ==
  LET summary1_keywords == SeqToSet(keywords_of(ticket1.summary))
      desc1_keywords == SeqToSet(keywords_of(ticket1.description))
      summary2_keywords == SeqToSet(keywords_of(ticket2.summary))
      desc2_keywords == SeqToSet(keywords_of(ticket2.description))
      keywords1 == summary1_keywords \cup desc1_keywords
      keywords2 == summary2_keywords \cup desc2_keywords
      subj1 == subject_terms_of(ticket1.summary)
      subj2 == subject_terms_of(ticket2.summary)
      subject_similarity == overlap_ratio(subj1, subj2)
      summary_similarity == overlap_ratio(summary1_keywords, summary2_keywords)
      tech1 == keywords1 \cap technical_terms
      tech2 == keywords2 \cap technical_terms
      tech_similarity == overlap_ratio(tech1, tech2)
      jaccard_similarity == overlap_ratio(keywords1, keywords2)
      type_similarity == match_ratio(ticket1.issue_type, ticket2.issue_type)
      priority_similarity == match_ratio(ticket1.priority, ticket2.priority)
      component_similarity == max_ratio(ticket1.components, ticket2.components)
      label_similarity == max_ratio(ticket1.labels, ticket2.labels)
      project_similarity == match_ratio(ticket1.project, ticket2.project)
      ratios == << subject_similarity, summary_similarity, tech_similarity,
                   jaccard_similarity, type_similarity, component_similarity,
                   priority_similarity, label_similarity, project_similarity >>
      weights == << SubjectWeight, SummaryWeight, TechWeight, JaccardWeight,
                    MetadataWeight, MetadataWeight, MetadataWeight, MetadataWeight,
                    MetadataWeight >>
      den == common_den(ratios)
      final_similarity == weighted_sum(ratios, weights, den)
      len1 == Len(ticket1.summary)
      len2 == Len(ticket2.summary)
      bonus == IF length_bonus_applies(len1, len2) THEN LengthBonus * den ELSE 0
  IN  IF no_keywords(keywords1, keywords2)
      THEN 0
      ELSE Max2(0, round6(final_similarity + bonus, den))

(* ------------------------------------------------------------------ *)
(* List helpers                                                       *)
(* ------------------------------------------------------------------ *)

\* xs[:n] for n >= 0
take(xs, n) == SubSeq(xs, 1, IF n <= Len(xs) THEN n ELSE Len(xs))

\* the elements of xs at the positions in idx, in increasing position order
seq_at(xs, idx) ==
  LET kth(k) == CHOOSE p \in idx : Cardinality({ q \in idx : q < p }) = k - 1
  IN  [k \in 1..Cardinality(idx) |-> xs[kth(k)]]

\* one listing of the set S
RECURSIVE set_to_seq(_)
set_to_seq(S) ==
  Only({ IF T = {} THEN << >>
         ELSE Only({ << v >> \o set_to_seq(T \ {v}) : v \in { CHOOSE e \in T : TRUE } }) :
         T \in { S } })

rotate(xs, k) == [i \in 1..Len(xs) |-> xs[((i + k - 1) % Len(xs)) + 1]]

\* the list kept as collected
list_of_set_off(xs) == { xs }

\* list(set(...)): the iteration order of a set of strings is not determined by
\* the program; the listings explored are the first NumOrders rotations of the
\* elements in order of first occurrence
list_of_set(xs) ==
  Only({ { rotate(base, k) : k \in { r \in 0..(NumOrders - 1) : r < Len(base) \/ r = 0 } } :
           base \in { seq_at(v, { i \in 1..Len(v) : \A j \in 1..(i - 1) : v[j] # v[i] }) :
                        v \in { xs } } })

\* the list left in collection order
sort_by_score_off(xs) == xs

\* xs.sort(key=lambda x: x['similarity_score'], reverse=True): stable
sort_by_score_desc(xs) ==
  LET before(i) == Cardinality({ j \in 1..Len(xs) :
                     \/ xs[j].similarity_score > xs[i].similarity_score
                     \/ (xs[j].similarity_score = xs[i].similarity_score /\ j < i) })
  IN  [k \in 1..Len(xs) |-> xs[CHOOSE i \in 1..Len(xs) : before(i) = k - 1]]

\* all lists of at most n elements of S
lists_up_to(S, n) == UNION { [1..k -> S] : k \in 0..n }

(* ------------------------------------------------------------------ *)
(* JIRASimilarityTool.analyze_similarity                              *)
(* ------------------------------------------------------------------ *)

\* search_queries = list(set(search_queries))[:25]
QueryCap == 25

\* floor of the relaxed threshold, in millionths
FallbackFloor == 100000

\* step by which the threshold is relaxed, in millionths
FallbackStep == 100000

\* the phrases of n adjacent words that are longer than min_len characters, in order
word_ngrams(words, n, min_len) ==
  LET phrase(i) == IF n = 2 THEN words[i] \o " " \o words[i + 1]
                   ELSE words[i] \o " " \o words[i + 1] \o " " \o words[i + 2]
      long(p) == Len(p) > min_len
  IN  SelectSeq([i \in 1..(IF Len(words) >= n THEN Len(words) - n + 1 ELSE 0) |-> phrase(i)],
                long)

\* search_queries as collected, before deduplication
collected_queries(target) ==
  LET target_keywords == keywords_of(target.summary \o " " \o target.description)
      target_subject_terms == subject_terms_of(target.summary)
      long_keyword(k) == Len(k) > 2
  IN  Only({ << target.summary >>
             \o SelectSeq(target_keywords, long_keyword)
             \o SelectSeq(set_to_seq(target_subject_terms), long_keyword)
             \o word_ngrams(words, 2, 5)
             \o word_ngrams(words, 3, 8) :
             words \in { str_split(str_lower(target.summary)) } })

\* every returned ticket kept
unique_by_key_off(tickets) == tickets

\* unique_map written without the membership test: the last ticket of each key
unique_by_key_last(tickets) ==
  LET firsts == seq_at([i \in 1..Len(tickets) |-> i],
                       { i \in 1..Len(tickets) :
                           \A j \in 1..(i - 1) : tickets[j].key # tickets[i].key })
  IN  [k \in 1..Len(firsts) |->
         tickets[SetMax({ j \in 1..Len(tickets) : tickets[j].key = tickets[firsts[k]].key })]]

\* unique_map: the first ticket of each key, in the order of first occurrence
unique_by_key(tickets) ==
  seq_at(tickets, { i \in 1..Len(tickets) :
                      \A j \in 1..(i - 1) : tickets[j].key # tickets[i].key })

\* the gate passed by every candidate when the target has no subject term
subject_overlap_unless_no_terms(cand, subject_terms) ==
  subject_terms = {} \/ subject_terms_of(cand.summary) \cap subject_terms # {}

\* the intersection taken as non-empty for every candidate
subject_overlap_always(cand, subject_terms) == TRUE

\* cand_subjects.intersection(target_subject_terms) is non-empty
subject_overlap(cand, subject_terms) ==
  subject_terms_of(cand.summary) \cap subject_terms # {}

\* the subject-overlap filter left out
filter_candidates_off(unique_candidates, subject_terms) == unique_candidates

\* the subject-overlap filter
filter_candidates(unique_candidates, subject_terms) ==
  LET keep(t) == subject_overlap(t, subject_terms)
  IN  SelectSeq(unique_candidates, keep)

\* the dict appended to similar
similar_entry(cand, cand_score) ==
  [key |-> cand.key, summary |-> cand.summary, issue_type |-> cand.issue_type,
   priority |-> cand.priority, status |-> cand.status,
   similarity_score |-> cand_score, description |-> cand.description]

\* one scoring pass in which the candidate with the target's key is not skipped
rank_candidates_with_target(target, candidates, min_score, limit) ==
  LET scores == [i \in 1..Len(candidates) |-> calculate_similarity(target, candidates[i])]
      entries == { seq_at([i \in 1..Len(candidates) |-> similar_entry(candidates[i], sc[i])],
                          { i \in 1..Len(candidates) : sc[i] >= min_score }) :
                   sc \in { scores } }
  IN  Only({ take(sort_by_score_desc(e), limit) : e \in entries })

\* one scoring pass: score, keep, sort, truncate
rank_candidates(target, candidates, min_score, limit) ==
  LET scores == [i \in 1..Len(candidates) |-> calculate_similarity(target, candidates[i])]
      entries == { seq_at([i \in 1..Len(candidates) |-> similar_entry(candidates[i], sc[i])],
                          { i \in 1..Len(candidates) :
                              candidates[i].key # target.key /\ sc[i] >= min_score }) :
                   sc \in { scores } }
  IN  Only({ take(sort_by_score_desc(e), limit) : e \in entries })

\* fallback_threshold = max(0.1, threshold - 0.1)
fallback_threshold_of(t) == Max2(FallbackFloor, t - FallbackStep)

\* the fallback never taken
needs_retry_never(found, candidates) == FALSE

\* the fallback taken whatever the filtered pool holds
needs_retry_any_pool(found, candidates) == found = << >>

\* not similar and filtered_candidates
needs_retry(found, candidates) == found = << >> /\ candidates # << >>

(* ------------------------------------------------------------------ *)
(* JIRASimilarityTool: fix suggestions                                *)
(* ------------------------------------------------------------------ *)

\* the value of a variable that holds nothing
None == [none |-> TRUE]

\* number of characters kept on each side of the keyword
ContextWindow == 100

\* fix_patterns, in the order the dict lists its groups and keywords
fix_patterns ==
  << [fix_type |-> "configuration",
      keywords |-> << "config", "setting", "parameter", "environment variable", "env var" >>],
     [fix_type |-> "code_change",
      keywords |-> << "code", "fix", "patch", "update", "modification", "change" >>],
     [fix_type |-> "workaround",
      keywords |-> << "workaround", "temporary", "interim", "bypass", "alternative" >>],
     [fix_type |-> "root_cause",
      keywords |-> << "root cause", "cause", "reason", "due to", "because" >>],
     [fix_type |-> "solution",
      keywords |-> << "solution", "resolution", "fix", "resolve", "address" >>] >>

\* ' '.join(s.split())
join_split(s) ==
  LET words == str_split(s)
  IN  str_of([i \in 1..(2 * Len(words) - 1) |->
                IF i % 2 = 1 THEN words[(i + 1) \div 2] ELSE " "])

\* text[start:end] around text.find(keyword), line breaks and runs of
\* whitespace turned into single spaces; "" when the keyword is not found
extract_context(text, keyword) ==
  LET found == occurrences(text, keyword)
  IN  IF found = {} THEN ""
      ELSE LET pos == SetMin(found) - 1
               start == Max2(0, pos - ContextWindow)
               end == IF Len(text) <= pos + Len(keyword) + ContextWindow
                      THEN Len(text) ELSE pos + Len(keyword) + ContextWindow
               context == SubSeq(text, start + 1, end)
           IN  join_split(str_replace(str_replace(context, "\n", " "), "\r", " "))

check_applicability(candidate, target) ==
  LET tech_keywords == { "dialoggpt", "chunks", "searchai", "orchestration",
                         "embedding", "vector", "generation" }
      problem_patterns == { "not getting", "not generated", "failed", "error",
                            "intermittent", "timeout", "slow", "hanging", "broken",
                            "not working" }
      \* the lower-cased summary + " " + description the two checks search in
      ticket_text(ticket) == str_lower(ticket.summary \o " " \o ticket.description)
      has_common_technology(text1, text2) ==
        \E keyword \in tech_keywords :
          str_contains(text1, keyword) /\ str_contains(text2, keyword)
      has_similar_problem_patterns(text1, text2) ==
        Cardinality({ pattern \in problem_patterns :
                        str_contains(text1, pattern) /\ str_contains(text2, pattern) }) >= 2
  IN  Only({ has_common_technology(t[1], t[2]) \/ has_similar_problem_patterns(t[1], t[2]) :
               t \in { << ticket_text(candidate), ticket_text(target) >> } })

\* the suggestions dict at entry; confidence in hundredths
no_suggestions ==
  [has_fix |-> FALSE, fix_type |-> None, suggested_solution |-> None,
   workaround |-> None, root_cause |-> None, applicable |-> FALSE, confidence |-> 0]

\* the two nested loops over fix_patterns, from keyword k of group g on:
\* every keyword found in the description assigns its group's field
RECURSIVE scan_patterns(_, _, _, _)
scan_patterns(found, description_text, g, k) ==
  IF g > Len(fix_patterns) THEN found
  ELSE IF k > Len(fix_patterns[g].keywords) THEN scan_patterns(found, description_text, g + 1, 1)
  ELSE LET fix_type == fix_patterns[g].fix_type
           keyword == fix_patterns[g].keywords[k]
           assigned ==
             IF ~str_contains(description_text, keyword) THEN found
             ELSE IF fix_type = "solution"
               THEN [found EXCEPT !.suggested_solution = extract_context(description_text, keyword)]
             ELSE IF fix_type = "workaround"
               THEN [found EXCEPT !.workaround = extract_context(description_text, keyword)]
             ELSE IF fix_type = "root_cause"
               THEN [found EXCEPT !.root_cause = extract_context(description_text, keyword)]
             ELSE found
       IN  Only({ scan_patterns(a, description_text, g, k + 1) : a \in { assigned } })

extract_fix_suggestions(candidate, target) ==
  LET status == str_lower(candidate.status)
      description_text == str_lower(candidate.description)
      applicable == check_applicability(candidate, target)
  IN  IF status \in { "closed", "resolved", "done", "successfully deployed" }
      THEN [scan_patterns([no_suggestions EXCEPT !.has_fix = TRUE, !.fix_type = "resolved"],
                          description_text, 1, 1)
              EXCEPT !.applicable = applicable,
                     !.confidence = IF applicable THEN 90 ELSE 50]
      ELSE IF /\ status \in { "open", "in progress", "ready for qa" }
              /\ \E word \in { "workaround", "temporary", "interim", "bypass" } :
                   str_contains(description_text, word)
      THEN [no_suggestions EXCEPT !.has_fix = TRUE, !.fix_type = "workaround",
                                  !.workaround = extract_context(description_text, "workaround"),
                                  !.applicable = applicable,
                                  !.confidence = 60]
      ELSE no_suggestions

(* ------------------------------------------------------------------ *)
(* State                                                              *)
(* ------------------------------------------------------------------ *)

VARIABLES
  pc,                    \* position of the analyze_similarity call
  target_ticket,         \* what get_ticket returned
  target_subject_terms,
  search_queries,
  qi,                    \* 1-based position in search_queries of the query in hand
  all_candidates,
  unique_candidates,     \* one ticket per key
  filtered_candidates,
  threshold,             \* parameter of the call, in millionths
  max_results,           \* parameter of the call
  similar,               \* the list the call returns
  passes,                \* number of scoring passes executed
  calls,                 \* the search requests sent so far and how each ended
  responses,             \* the responses get_ticket has received so far
  input_text,            \* argument and results of preprocess_text and extract_keywords
  processed_text,
  extracted_keywords,
  candidate_ticket,      \* arguments and result of an extract_fix_suggestions call
  fix_target,
  fix_suggestions,
  ticket1,               \* arguments and result of a calculate_similarity call
  ticket2,
  score

vars ==
  << pc, target_ticket, target_subject_terms, search_queries, qi, all_candidates,
     unique_candidates, filtered_candidates, threshold, max_results, similar, passes,
     calls, responses, input_text, processed_text, extracted_keywords,
     candidate_ticket, fix_target, fix_suggestions, ticket1, ticket2, score >>

analysis_vars ==
  << pc, target_ticket, target_subject_terms, search_queries, qi, all_candidates,
     unique_candidates, filtered_candidates, threshold, max_results, similar, passes >>

score_vars == << ticket1, ticket2, score >>

text_vars == << input_text, processed_text, extracted_keywords >>

fix_vars == << candidate_ticket, fix_target, fix_suggestions >>

NoAnalysis ==
  /\ target_ticket = None
  /\ target_subject_terms = {}
  /\ search_queries = << >>
  /\ qi = 0
  /\ all_candidates = << >>
  /\ unique_candidates = << >>
  /\ filtered_candidates = << >>
  /\ threshold = 0
  /\ max_results = 0
  /\ similar = << >>
  /\ passes = 0

\* no call of the text functions is under way
NoTextCall ==
  /\ input_text = None
  /\ processed_text = None
  /\ extracted_keywords = None

\* no call of extract_fix_suggestions is under way
NoFixCall ==
  /\ candidate_ticket = None
  /\ fix_target = None
  /\ fix_suggestions = None

Init ==
  /\ pc = "start"
  /\ NoAnalysis
  /\ calls = << >>
  /\ responses = << >>
  /\ NoTextCall
  /\ NoFixCall
  /\ ticket1 = None
  /\ ticket2 = None
  /\ score = None

(* ------------------------------------------------------------------ *)
(* analyze_similarity, step by step                                   *)
(* ------------------------------------------------------------------ *)

\* what analyze_similarity returns when get_ticket yields no ticket
not_found_result == << >>

\* get_ticket yields no ticket and the analysis goes on all the same
after_get_ticket_unchecked(found) == "plan"

\* if not target_ticket: return, else go on to the search queries
after_get_ticket(found) == IF found = None THEN "done" ELSE "plan"

\* target_ticket = self.jira_client.get_ticket(ticket_key) has yielded found;
\* return [] if there is none
GetTicketYields(found) ==
  /\ pc = "start"
  /\ target_ticket' = found
  /\ pc' = after_get_ticket(found)
  /\ similar' = IF found = None THEN not_found_result ELSE similar
  /\ UNCHANGED << target_subject_terms, search_queries, qi, all_candidates,
                  unique_candidates, filtered_candidates, threshold, max_results,
                  passes, calls >>
  /\ UNCHANGED << score_vars, responses, text_vars, fix_vars >>

GetTicket == \E found \in Targets \cup {None} : GetTicketYields(found)

\* keywords, subject terms and the deduplicated, capped query list
PlanQueries ==
  /\ pc = "plan"
  /\ target_subject_terms' = subject_terms_of(target_ticket.summary)
  /\ \E listing \in list_of_set(collected_queries(target_ticket)) :
       search_queries' = take(listing, QueryCap)
  /\ qi' = 1
  /\ pc' = "search"
  /\ UNCHANGED << target_ticket, all_candidates, unique_candidates,
                  filtered_candidates, threshold,
                  max_results, similar, passes, calls >>
  /\ UNCHANGED << score_vars, responses, text_vars, fix_vars >>

\* the loop moves to the next query, or ends
NextQuery ==
  /\ qi' = qi + 1
  /\ pc' = IF qi = Len(search_queries) THEN "rank" ELSE "search"

\* the unconstrained search issued after every constrained one
falls_back_always(cands) == TRUE

\* if not cands: the constrained call returned no ticket
falls_back(cands) == cands = << >>

\* cands = search_tickets_projects_issue_type(q, ...) has returned cands
ConstrainedReturns(cands) ==
  /\ pc = "search"
  /\ IF falls_back(cands)
     THEN /\ pc' = "fallback_search"
          /\ UNCHANGED << qi, all_candidates >>
     ELSE /\ all_candidates' = all_candidates \o cands
          /\ NextQuery
  /\ UNCHANGED << target_ticket, target_subject_terms, search_queries,
                  unique_candidates,
                  filtered_candidates, threshold, max_results, similar, passes >>
  /\ UNCHANGED << score_vars, responses, text_vars, fix_vars >>

\* cands = search_tickets(q, ...) has returned cands
UnconstrainedReturns(cands) ==
  /\ pc = "fallback_search"
  /\ all_candidates' = all_candidates \o cands
  /\ NextQuery
  /\ UNCHANGED << target_ticket, target_subject_terms, search_queries,
                  unique_candidates,
                  filtered_candidates, threshold, max_results, similar, passes >>
  /\ UNCHANGED << score_vars, responses, text_vars, fix_vars >>

\* cands = search_tickets_projects_issue_type(q, ...); a failed call returns []
SearchConstrained ==
  /\ \E cands \in lists_up_to(Backend, MaxPool - Len(all_candidates)) :
       ConstrainedReturns(cands)
  /\ UNCHANGED calls

\* cands = search_tickets(q, ...), issued when the constrained call returned nothing
SearchUnconstrained ==
  /\ \E cands \in lists_up_to(Backend, MaxPool - Len(all_candidates)) :
       UnconstrainedReturns(cands)
  /\ UNCHANGED calls

\* deduplication by key, subject-overlap filter and the first scoring pass;
\* threshold and max_results are first read here
Rank ==
  /\ pc = "rank"
  /\ \E th \in Thresholds, limit \in 0..MaxResultsBound :
       /\ threshold' = th
       /\ max_results' = limit
       /\ unique_candidates' = unique_by_key(all_candidates)
       /\ filtered_candidates' =
            filter_candidates(unique_candidates', target_subject_terms)
       /\ similar' = rank_candidates(target_ticket, filtered_candidates', th, limit)
       /\ passes' = 1
       /\ pc' = IF needs_retry(similar', filtered_candidates') THEN "retry" ELSE "done"
  /\ UNCHANGED << target_ticket, target_subject_terms, search_queries, qi,
                  all_candidates, calls >>
  /\ UNCHANGED << score_vars, responses, text_vars, fix_vars >>

\* the fallback: one more scoring pass with the relaxed threshold
Retry ==
  /\ pc = "retry"
  /\ similar' = rank_candidates(target_ticket, filtered_candidates,
                                fallback_threshold_of(threshold), max_results)
  /\ passes' = 2
  /\ pc' = "done"
  /\ UNCHANGED << target_ticket, target_subject_terms, search_queries, qi,
                  all_candidates, unique_candidates,
                  filtered_candidates, threshold, max_results, calls >>
  /\ UNCHANGED << score_vars, responses, text_vars, fix_vars >>

Next ==
  \/ GetTicket
  \/ PlanQueries
  \/ SearchConstrained
  \/ SearchUnconstrained
  \/ Rank
  \/ Retry

Spec == Init /\ [][Next]_vars

(* ------------------------------------------------------------------ *)
(* analyze_similarity against a backend with fixed contents whose     *)
(* search requests can fail                                           *)
(* ------------------------------------------------------------------ *)

\* self.project_key
ProjectKey == "PLAT"

allowed_projects == { "PLAT", "XOP" }

allowed_issue_types == { "Bug", "Customer-Incident", "Customer-Defect" }

\* max_results of the search calls
SearchLimit == 50

\* the texts of the store in lower case: the text search ignores case
StoreLower ==
  [i \in 1..Len(StoreTickets) |->
     [summary |-> str_lower(StoreTickets[i].summary),
      description |-> str_lower(StoreTickets[i].description)]]

\* summary ~ "q" OR description ~ "q", the clause left out for a blank query
text_matches(i, q) ==
  \/ str_strip(q) = ""
  \/ str_contains(StoreLower[i].summary, q)
  \/ str_contains(StoreLower[i].description, q)

\* the project and issue type clauses of the two searches
in_scope(scope, ticket) ==
  IF scope = "constrained"
  THEN ticket.project \in allowed_projects /\ ticket.issue_type \in allowed_issue_types
  ELSE ticket.project = ProjectKey

\* what the backend lists for a search request
store_answer(scope, query) ==
  Only({ take(seq_at(StoreTickets,
                     { i \in 1..Len(StoreTickets) :
                         in_scope(scope, StoreTickets[i]) /\ text_matches(i, q) }),
              SearchLimit) :
         q \in { str_lower(query) } })

\* the ticket the backend holds under a key, if any
store_lookup(key) ==
  IF \E i \in 1..Len(StoreTickets) : StoreTickets[i].key = key
  THEN StoreTickets[CHOOSE i \in 1..Len(StoreTickets) : StoreTickets[i].key = key]
  ELSE None

\* the keys analyze_similarity is called with
StoreKeys == { StoreTickets[i].key : i \in 1..Len(StoreTickets) } \cup { "PLAT-404" }

\* how a search request ends: a parsed 200 response, an exception of the
\* session, another status, or a 200 response the parsing of which raises
ResponseKinds == { "ok", "network_error", "http_error", "malformed" }

\* a search function that catches the exceptions of the session only
search_outcome_uncaught(kind, listed) ==
  [raised |-> kind = "malformed", tickets |-> IF kind = "ok" THEN listed ELSE << >>]

\* what a search function hands to analyze_similarity: the parsed tickets, or
\* [] for another status and for every exception
search_outcome(kind, listed) ==
  [raised |-> FALSE, tickets |-> IF kind = "ok" THEN listed ELSE << >>]

\* the number of requests that did not end in a parsed response
failed_calls == Cardinality({ c \in 1..Len(calls) : calls[c].response # "ok" })

\* a request and how it ended
call_record(scope, query, kind) == [scope |-> scope, query |-> query, response |-> kind]

\* an exception leaves analyze_similarity
SearchRaises ==
  /\ pc' = "raised"
  /\ UNCHANGED << target_ticket, target_subject_terms, search_queries, qi,
                  all_candidates, unique_candidates, filtered_candidates,
                  threshold, max_results, similar, passes >>
  /\ UNCHANGED << score_vars, responses, text_vars, fix_vars >>

\* the tickets handed over by a sequence of requests: those listed for the
\* requests that ended in a parsed response, in request order
RECURSIVE listed_by(_)
listed_by(requests) ==
  IF requests = << >> THEN << >>
  ELSE (IF Head(requests).response = "ok"
        THEN store_answer(Head(requests).scope, Head(requests).query)
        ELSE << >>)
       \o listed_by(Tail(requests))

\* all_candidates after the search loop over queries when no request fails
RECURSIVE pool_of(_)
pool_of(queries) ==
  IF queries = << >> THEN << >>
  ELSE Only({ IF cands # << >> THEN cands ELSE store_answer("project", Head(queries)) :
              cands \in { store_answer("constrained", Head(queries)) } })
       \o pool_of(Tail(queries))

\* what analyze_similarity returns for the tickets the search loop collected
result_of_pool(target, pool, min_score, limit) ==
  Only({ Only({ IF needs_retry(first, filtered)
                THEN rank_candidates(target, filtered, fallback_threshold_of(min_score), limit)
                ELSE first :
                first \in { rank_candidates(target, filtered, min_score, limit) } }) :
         filtered \in { filter_candidates(unique_by_key(pool),
                                          subject_terms_of(target.summary)) } })

StoreGetTicket == \E key \in StoreKeys : GetTicketYields(store_lookup(key))

StoreSearchConstrained ==
  /\ pc = "search"
  /\ \E kind \in ResponseKinds :
       /\ kind # "ok" => failed_calls < MaxFailures
       /\ calls' = Append(calls, call_record("constrained", search_queries[qi], kind))
       /\ \E out \in { search_outcome(kind, store_answer("constrained", search_queries[qi])) } :
            IF out.raised THEN SearchRaises ELSE ConstrainedReturns(out.tickets)

StoreSearchUnconstrained ==
  /\ pc = "fallback_search"
  /\ \E kind \in ResponseKinds :
       /\ kind # "ok" => failed_calls < MaxFailures
       /\ calls' = Append(calls, call_record("project", search_queries[qi], kind))
       /\ \E out \in { search_outcome(kind, store_answer("project", search_queries[qi])) } :
            IF out.raised THEN SearchRaises ELSE UnconstrainedReturns(out.tickets)

StoreNext ==
  \/ StoreGetTicket
  \/ PlanQueries
  \/ StoreSearchConstrained
  \/ StoreSearchUnconstrained
  \/ Rank
  \/ Retry

StoreSpec == Init /\ [][StoreNext]_vars

(* ------------------------------------------------------------------ *)
(* calculate_similarity applied to a pair of tickets                  *)
(* ------------------------------------------------------------------ *)

ScoreInit ==
  /\ pc = "score"
  /\ NoAnalysis
  /\ calls = << >>
  /\ responses = << >>
  /\ NoTextCall
  /\ NoFixCall
  /\ ticket1 \in ScoreTickets
  /\ ticket2 \in ScoreTickets
  /\ score = None

\* score = analyzer.calculate_similarity(ticket1, ticket2)
CalculateSimilarity ==
  /\ pc = "score"
  /\ score = None
  /\ score' = [value |-> calculate_similarity(ticket1, ticket2)]
  /\ UNCHANGED << ticket1, ticket2, calls, responses, text_vars, fix_vars >>
  /\ UNCHANGED analysis_vars

ScoreNext == CalculateSimilarity

ScoreSpec == ScoreInit /\ [][ScoreNext]_vars

(* ------------------------------------------------------------------ *)
(* JIRAClient.get_ticket                                              *)
(* ------------------------------------------------------------------ *)

\* for api_version in ['2', '3']
ApiVersions == << "2", "3" >>

\* the status codes get_ticket tells apart, and one of the others
StatusCodes == { 200, 404, 401, 403, 500 }

\* a field of the issue: an object, not in the body, or null
FieldStates == { "present", "absent", "null" }

\* the bodies of a 200 response
IssueBodies ==
  [issuetype : FieldStates, priority : FieldStates,
   assignee : FieldStates, reporter : FieldStates]

\* what self.session.get(url) can bring: an exception of the session, or a
\* response with a status code and, for 200, an issue
LookupResponses ==
  { [kind |-> "network_error"] }
  \cup { [kind |-> "http", status |-> st] : st \in StatusCodes \ { 200 } }
  \cup { [kind |-> "http", status |-> 200, body |-> b] : b \in IssueBodies }

\* fields.get(name, {}).get(attr, ''): the attribute of the object, '' when the
\* field is not in the body, and an AttributeError when it is null
nested_get(state, value) ==
  IF state = "null" THEN [raised |-> TRUE]
  ELSE [raised |-> FALSE, value |-> IF state = "present" THEN value ELSE ""]

\* the JIRATicket built from the body of a 200 response
issue_ticket(issue_type, priority, assignee, reporter) ==
  [key |-> "PLAT-X", summary |-> Summaries[8], description |-> "",
   issue_type |-> issue_type, priority |-> priority, status |-> "Open",
   assignee |-> assignee, reporter |-> reporter,
   labels |-> {}, components |-> {}, project |-> "PLAT"]

\* one round of the loop over the API versions: a ticket is returned, None is
\* returned, an exception leaves get_ticket, or the next version is tried
get_ticket_round(response) ==
  IF response.kind = "network_error" THEN [kind |-> "none"]
  ELSE IF response.status # 200 THEN [kind |-> "continue"]
  ELSE LET issue_type == nested_get(response.body.issuetype, "Bug")
           priority == nested_get(response.body.priority, "High")
           assignee == nested_get(response.body.assignee, "A. Assignee")
           reporter == nested_get(response.body.reporter, "R. Reporter")
       IN  IF issue_type.raised \/ priority.raised \/ assignee.raised \/ reporter.raised
           THEN [kind |-> "raise"]
           ELSE [kind |-> "ticket",
                 ticket |-> issue_ticket(issue_type.value, priority.value,
                                         assignee.value, reporter.value)]

LookupInit ==
  /\ pc = "lookup"
  /\ NoAnalysis
  /\ calls = << >>
  /\ responses = << >>
  /\ NoTextCall
  /\ NoFixCall
  /\ ticket1 = None
  /\ ticket2 = None
  /\ score = None

\* response = self.session.get(url) for the next API version, and what
\* get_ticket does with it
GetTicketRound ==
  /\ pc = "lookup"
  /\ \E response \in LookupResponses :
       /\ responses' = Append(responses, response)
       /\ \E out \in { get_ticket_round(response) } :
            /\ target_ticket' = IF out.kind = "ticket" THEN out.ticket ELSE None
            /\ pc' = IF out.kind = "raise" THEN "raised"
                     ELSE IF out.kind = "continue" /\ Len(responses') < Len(ApiVersions)
                     THEN "lookup"
                     ELSE "returned"
  /\ UNCHANGED << target_subject_terms, search_queries, qi, all_candidates,
                  unique_candidates, filtered_candidates, threshold, max_results,
                  similar, passes, calls >>
  /\ UNCHANGED << score_vars, text_vars, fix_vars >>

LookupNext == GetTicketRound

LookupSpec == LookupInit /\ [][LookupNext]_vars

(* ------------------------------------------------------------------ *)
(* preprocess_text and extract_keywords applied to a text             *)
(* ------------------------------------------------------------------ *)

\* texts with stop words that are technical terms or always kept, short
\* tokens, noise words, and generic phrases written in several ways
ProbeTexts ==
  << "The bug is in UI test", "go to http www io db", "error: issue with bot",
     "Not,working as  expected", "error.occurred", "NOT\tWORKING", "api v2 ok",
     "A failed-over test failure", "throws  error", "fail ed",
     "Login is not working", "Works as expected", "User task code", "Unexpected",
     "showing\nerror", "not, functioning CI", "AI ML ux f1", "failing failed failure",
     "issue  with", "x" >>

TextInputs ==
  Prefix(Summaries, NumSummaries) \cup Prefix(Descriptions, NumDescriptions)
  \cup SeqToSet(ProbeTexts)

TextInit ==
  /\ pc = "text"
  /\ NoAnalysis
  /\ calls = << >>
  /\ responses = << >>
  /\ input_text \in TextInputs
  /\ processed_text = None
  /\ extracted_keywords = None
  /\ NoFixCall
  /\ ticket1 = None
  /\ ticket2 = None
  /\ score = None

\* processed = self.preprocess_text(text)
PreprocessText ==
  /\ pc = "text"
  /\ processed_text = None
  /\ processed_text' = [value |-> preprocess_text(input_text)]
  /\ UNCHANGED << input_text, extracted_keywords >>
  /\ UNCHANGED << analysis_vars, calls, responses, score_vars, fix_vars >>

\* keywords = self.extract_keywords(text)
ExtractKeywords ==
  /\ pc = "text"
  /\ extracted_keywords = None
  /\ extracted_keywords' = [value |-> extract_keywords(input_text)]
  /\ UNCHANGED << input_text, processed_text >>
  /\ UNCHANGED << analysis_vars, calls, responses, score_vars, fix_vars >>

TextNext ==
  \/ PreprocessText
  \/ ExtractKeywords

TextSpec == TextInit /\ [][TextNext]_vars

(* ------------------------------------------------------------------ *)
(* extract_fix_suggestions applied to a candidate and a target        *)
(* ------------------------------------------------------------------ *)

\* number of description fragments in use
NumFragments == 6

\* a text longer than the context window that holds no keyword
FixPad ==
  "the dialog node of the imported app keeps the old intent list and the bot replies twice to every user message. "

FixFragments ==
  << "", "Root cause: stale cache. ", "Solution: restart the bot. ",
     "Workaround: retry later. ", "the deploy failed; we had to fix and\nresolve it. ",
     "temporary bypass in place. ", "due to a timeout error. " >>

\* candidates whose description is a fragment, the filler, a fragment
FixCandidates ==
  LET FixDescriptions == { a \o FixPad \o b : a, b \in Prefix(FixFragments, NumFragments) }
      FixStatuses == { "Closed", "Resolved", "Done", "Successfully Deployed",
                       "Open", "In Progress", "Blocked" }
  IN  { JIRATicket("PLAT-Y", s, d, st, Metadata[1]) :
          s \in { Summaries[2], Summaries[13] }, d \in FixDescriptions, st \in FixStatuses }

FixTargets ==
  { TargetTickets[1], TargetTickets[6],
    JIRATicket("PLAT-X", Summaries[9], "timeout", "Open", Metadata[1]) }

FixInit ==
  /\ pc = "fix"
  /\ NoAnalysis
  /\ calls = << >>
  /\ responses = << >>
  /\ NoTextCall
  /\ candidate_ticket \in FixCandidates
  /\ fix_target \in FixTargets
  /\ fix_suggestions = None
  /\ ticket1 = None
  /\ ticket2 = None
  /\ score = None

\* suggestions = self.extract_fix_suggestions(candidate_ticket, target_ticket)
ExtractFixSuggestions ==
  /\ pc = "fix"
  /\ fix_suggestions = None
  /\ fix_suggestions' = extract_fix_suggestions(candidate_ticket, fix_target)
  /\ pc' = "fixed"
  /\ UNCHANGED << candidate_ticket, fix_target >>
  /\ UNCHANGED << target_ticket, target_subject_terms, search_queries, qi, all_candidates,
                  unique_candidates, filtered_candidates, threshold, max_results, similar,
                  passes, calls, responses >>
  /\ UNCHANGED << score_vars, text_vars >>

FixNext == ExtractFixSuggestions

FixSpec == FixInit /\ [][FixNext]_vars

(* ------------------------------------------------------------------ *)
(* Properties of calculate_similarity (checked under ScoreSpec)       *)
(* ------------------------------------------------------------------ *)

\* C1: calculate_similarity(A, B) equals calculate_similarity(B, A) for all
\* tickets A and B, the summary-length bonus included.
ScoreSymmetric ==
  score # None => score.value = calculate_similarity(ticket2, ticket1)

\* two different tickets whose summaries differ in length, close enough for the
\* bonus, with a score above the bonus alone
ScoreSymmetricWitness ==
  /\ score # None
  /\ Len(ticket1.summary) # Len(ticket2.summary)
  /\ 5 * Abs(Len(ticket1.summary) - Len(ticket2.summary))
       < Max2(Len(ticket1.summary), Len(ticket2.summary))
  /\ score.value > 10000

\* C2: calculate_similarity(A, B) lies in [0.0, 1.01] for all tickets A and B.
ScoreInRange ==
  score # None => score.value >= 0 /\ score.value <= 1010000

\* a pair that reaches the upper end of the range
ScoreInRangeWitness ==
  /\ score # None
  /\ score.value = 1010000

\* C3: when at least one keyword set is non-empty, the score is
\* 0.5*subject + 0.35*summary + 0.10*tech + 0.05*jaccard, plus 0.01 exactly
\* when 1 - |len1 - len2| / max(len1, len2, 1) > 0.8, each term being
\* |intersection| / |union| (0 for an empty union); the value returned is that
\* sum to 6 decimal places.
ScoreIsWeightedSum ==
  score # None =>
    LET sk1 == SeqToSet(keywords_of(ticket1.summary))
        sk2 == SeqToSet(keywords_of(ticket2.summary))
        k1 == sk1 \cup SeqToSet(keywords_of(ticket1.description))
        k2 == sk2 \cup SeqToSet(keywords_of(ticket2.description))
        sj1 == subject_terms_of(ticket1.summary)
        sj2 == subject_terms_of(ticket2.summary)
        t1 == k1 \cap technical_terms
        t2 == k2 \cap technical_terms
        num(a, b) == Cardinality(a \cap b)
        den(a, b) == IF a \cup b = {} THEN 1 ELSE Cardinality(a \cup b)
        d1 == den(sj1, sj2)
        d2 == den(sk1, sk2)
        d3 == den(t1, t2)
        d4 == den(k1, k2)
        len1 == Len(ticket1.summary)
        len2 == Len(ticket2.summary)
        longest == IF len1 >= len2 THEN (IF len1 >= 1 THEN len1 ELSE 1)
                   ELSE (IF len2 >= 1 THEN len2 ELSE 1)
        \* 1 - |len1 - len2| / longest > 8/10
        bonus == 10 * (longest - Abs(len1 - len2)) > 8 * longest
        D == d1 * d2 * d3 * d4
        \* the sum in hundredths, over D
        N == 50 * num(sj1, sj2) * d2 * d3 * d4
             + 35 * num(sk1, sk2) * d1 * d3 * d4
             + 10 * num(t1, t2) * d1 * d2 * d4
             + 5 * num(k1, k2) * d1 * d2 * d3
             + (IF bonus THEN D ELSE 0)
        rest == score.value - 10000 * (N \div D)
    IN  (k1 # {} \/ k2 # {}) => 2 * Abs(rest * D - 10000 * (N % D)) <= D

\* a pair with keywords whose length similarity is exactly 0.8 (no bonus) and
\* whose score is positive
ScoreIsWeightedSumWitness ==
  /\ score # None
  /\ score.value > 0
  /\ Len(ticket1.summary) > Len(ticket2.summary)
  /\ 5 * (Len(ticket1.summary) - Len(ticket2.summary)) = Len(ticket1.summary)

\* C4: when the keyword sets of both tickets are empty (in particular when both
\* summaries and both descriptions are empty) the score is exactly 0.0, without
\* the length bonus.
EmptyKeywordsScoreZero ==
  (/\ score # None
   /\ keywords_of(ticket1.summary) = << >>
   /\ keywords_of(ticket1.description) = << >>
   /\ keywords_of(ticket2.summary) = << >>
   /\ keywords_of(ticket2.description) = << >>)
  => score.value = 0

\* two tickets without keywords whose non-empty summaries have the same length,
\* so that the bonus condition is met
EmptyKeywordsScoreZeroWitness ==
  /\ score # None
  /\ keywords_of(ticket1.summary) = << >>
  /\ keywords_of(ticket1.description) = << >>
  /\ keywords_of(ticket2.summary) = << >>
  /\ keywords_of(ticket2.description) = << >>
  /\ Len(ticket1.summary) > 0
  /\ Len(ticket1.summary) = Len(ticket2.summary)

(* ------------------------------------------------------------------ *)
(* Properties of analyze_similarity (checked under Spec)              *)
(* ------------------------------------------------------------------ *)

\* C5: a ticket returned by a search call whose summary shares no subject term
\* with the target's summary is never in the returned list, at any threshold,
\* on the first pass or the retry, whatever its score.
GateExcludesDisjoint ==
  target_ticket # None =>
    \A i \in 1..Len(all_candidates) :
      subject_terms_of(all_candidates[i].summary)
        \cap subject_terms_of(target_ticket.summary) = {}
      => \A j \in 1..Len(similar) :
           ~(/\ similar[j].key = all_candidates[i].key
             /\ similar[j].summary = all_candidates[i].summary
             /\ similar[j].description = all_candidates[i].description)

\* the call returned a non-empty list while a returned ticket without a common
\* subject term scored at or above the threshold
GateExcludesDisjointWitness ==
  /\ pc = "done"
  /\ target_ticket # None
  /\ similar # << >>
  /\ \E i \in 1..Len(all_candidates) :
       /\ all_candidates[i].key # target_ticket.key
       /\ subject_terms_of(target_ticket.summary) # {}
       /\ subject_terms_of(all_candidates[i].summary)
            \cap subject_terms_of(target_ticket.summary) = {}
       /\ calculate_similarity(target_ticket, all_candidates[i]) >= threshold

\* C6: the keys of the returned list are pairwise distinct and none is the
\* target's key, whatever the search calls return.
ResultKeysDistinctNotTarget ==
  target_ticket # None =>
    /\ \A i, j \in 1..Len(similar) : i # j => similar[i].key # similar[j].key
    /\ \A i \in 1..Len(similar) : similar[i].key # target_ticket.key

\* a key returned twice by the search calls is in the returned list
ResultKeysDistinctNotTargetWitness ==
  /\ pc = "done"
  /\ \E i, j \in 1..Len(all_candidates) :
       /\ i < j
       /\ all_candidates[i].key = all_candidates[j].key
       /\ \E k \in 1..Len(similar) : similar[k].key = all_candidates[i].key

\* C7: for max_results >= 0 the returned list has at most max_results entries
\* and its scores are in non-increasing order, after the first pass and after
\* the retry.
ResultSortedAndBounded ==
  passes >= 1 =>
    /\ Len(similar) <= max_results
    /\ \A i, j \in 1..Len(similar) :
         i < j => similar[i].similarity_score >= similar[j].similarity_score

\* the retry returned two entries, the better one collected after the other
ResultSortedAndBoundedWitness ==
  /\ pc = "done"
  /\ passes = 2
  /\ Len(similar) = 2
  /\ similar[1].similarity_score > similar[2].similarity_score
  /\ \E i, j \in 1..Len(filtered_candidates) :
       /\ i < j
       /\ filtered_candidates[i].key = similar[2].key
       /\ filtered_candidates[j].key = similar[1].key

\* C8: when no filtered candidate qualifies at the threshold and the filtered
\* pool is non-empty, the scoring pass is repeated exactly once, with
\* max(0.1, threshold - 0.1): the returned entries are those of that pass (each
\* scores at least the fallback threshold) and there is no further pass even if
\* the retry finds nothing.
RetryExactlyOnce ==
  /\ passes <= 2
  /\ (/\ pc = "done"
      /\ target_ticket # None
      /\ filtered_candidates # << >>
      /\ \A i \in 1..Len(filtered_candidates) :
           \/ filtered_candidates[i].key = target_ticket.key
           \/ calculate_similarity(target_ticket, filtered_candidates[i]) < threshold)
     => LET relaxed == IF threshold - 100000 >= 100000
                       THEN threshold - 100000 ELSE 100000
            qualifying == { i \in 1..Len(filtered_candidates) :
                              /\ filtered_candidates[i].key # target_ticket.key
                              /\ calculate_similarity(target_ticket, filtered_candidates[i])
                                   >= relaxed }
        IN  /\ passes = 2
            /\ \A i \in 1..Len(similar) : similar[i].similarity_score >= relaxed
            /\ \A i \in 1..Len(similar) :
                 \E c \in qualifying : filtered_candidates[c].key = similar[i].key
            /\ similar = << >> <=> (max_results = 0 \/ qualifying = {})

\* the retry ran over a candidate other than the target and found nothing
RetryExactlyOnceWitness ==
  /\ pc = "done"
  /\ passes = 2
  /\ max_results > 0
  /\ similar = << >>
  /\ \E i \in 1..Len(filtered_candidates) :
       filtered_candidates[i].key # target_ticket.key

\* C9: when every search call of every planned query returns no ticket, the
\* call returns an empty list and the retry is not attempted.
NoCandidatesNoRetry ==
  (pc = "done" /\ target_ticket # None /\ all_candidates = << >>)
  => (similar = << >> /\ passes = 1)

\* several queries were searched, constrained and unconstrained, all without result
NoCandidatesNoRetryWitness ==
  /\ pc = "done"
  /\ target_ticket # None
  /\ Len(search_queries) >= 2
  /\ qi = Len(search_queries) + 1
  /\ all_candidates = << >>

\* C10: the list of search queries holds no query twice and at most 25 queries.
QueriesDistinctAndCapped ==
  /\ Len(search_queries) <= 25
  /\ \A i, j \in 1..Len(search_queries) :
       i # j => search_queries[i] # search_queries[j]

\* a target whose collected queries repeat and, deduplicated, exceed the cap
QueriesDistinctAndCappedWitness ==
  /\ target_ticket # None
  /\ Len(search_queries) = 25
  /\ Cardinality(SeqToSet(collected_queries(target_ticket))) > 25
  /\ Len(collected_queries(target_ticket))
       > Cardinality(SeqToSet(collected_queries(target_ticket)))

\* C11: once the queries are planned, the list of queries that are issued
\* (deduplicated and capped at 25) contains the target's raw summary.
SummaryAlwaysQueried ==
  (target_ticket # None /\ pc \notin { "start", "plan" })
  => \E i \in 1..Len(search_queries) : search_queries[i] = target_ticket.summary

(* ------------------------------------------------------------------ *)
(* The candidate pool                                                 *)
(* ------------------------------------------------------------------ *)

\* positions in all_candidates of the tickets with the key of pool entry i
returned_at(i) ==
  { j \in 1..Len(all_candidates) : all_candidates[j].key = unique_candidates[i].key }

\* C12 as stated: when a key is returned more than once, the pool keeps the
\* ticket that was returned last
PoolKeepsLastReturned ==
  passes >= 1 =>
    \A i \in 1..Len(unique_candidates) :
      unique_candidates[i] = all_candidates[SetMax(returned_at(i))]

\* C12 as amended: when a key is returned more than once, the pool keeps the
\* ticket that was returned first, and every returned key is in the pool once
PoolKeepsFirstReturned ==
  passes >= 1 =>
    /\ \A i \in 1..Len(unique_candidates) :
         unique_candidates[i] = all_candidates[SetMin(returned_at(i))]
    /\ \A j \in 1..Len(all_candidates) :
         Cardinality({ i \in 1..Len(unique_candidates) :
                         unique_candidates[i].key = all_candidates[j].key }) = 1

\* one key was returned twice, with two different tickets, and the pool is built
PoolKeepsFirstReturnedWitness ==
  /\ passes >= 1
  /\ Len(all_candidates) = 2
  /\ all_candidates[1].key = all_candidates[2].key
  /\ all_candidates[1] # all_candidates[2]
  /\ unique_candidates = << all_candidates[1] >>

\* the keys of the tickets of a list
keys_of(tickets) == { tickets[i].key : i \in 1..Len(tickets) }

\* C13 as stated: neither the merged pool nor the gated pool ever contains a
\* ticket with the target's key, even when a search call returns the target
PoolsNeverHoldTarget ==
  target_ticket # None =>
    /\ target_ticket.key \notin keys_of(unique_candidates)
    /\ target_ticket.key \notin keys_of(filtered_candidates)

\* C13 as amended: the merged pool contains a ticket with the target's key
\* exactly when a search call returned one, the gated pool exactly when that
\* ticket shares a subject term with the target, and the returned list never
\* contains it
TargetSkippedAtScoring ==
  passes >= 1 =>
    /\ target_ticket.key \in keys_of(unique_candidates)
         <=> target_ticket.key \in keys_of(all_candidates)
    /\ target_ticket.key \in keys_of(filtered_candidates)
         <=> \E i \in 1..Len(unique_candidates) :
               /\ unique_candidates[i].key = target_ticket.key
               /\ subject_overlap(unique_candidates[i], target_subject_terms)
    /\ target_ticket.key \notin keys_of(similar)

\* a search call returned the target, it is in both pools, and the returned
\* list holds another ticket
TargetSkippedAtScoringWitness ==
  /\ pc = "done"
  /\ target_ticket # None
  /\ target_ticket.key \in keys_of(unique_candidates)
  /\ target_ticket.key \in keys_of(filtered_candidates)
  /\ similar # << >>

(* ------------------------------------------------------------------ *)
(* Metadata and the score (checked under ScoreSpec)                   *)
(* ------------------------------------------------------------------ *)

\* a ticket with other metadata and the same key, texts and status
with_metadata(ticket, meta) ==
  JIRATicket(ticket.key, ticket.summary, ticket.description, ticket.status, meta)

\* C14: the score of two tickets does not depend on their issue_type, priority,
\* components, labels or project: replacing the metadata of either ticket by
\* any other leaves calculate_similarity unchanged.
MetadataNeverAffectsScore ==
  score # None =>
    \A m1, m2 \in Prefix(Metadata, NumMetadata) :
      calculate_similarity(with_metadata(ticket1, m1), with_metadata(ticket2, m2))
        = score.value

\* two tickets that differ in all five metadata fields, scored above the bonus
MetadataNeverAffectsScoreWitness ==
  /\ score # None
  /\ ticket1.issue_type # ticket2.issue_type
  /\ ticket1.priority # ticket2.priority
  /\ ticket1.project # ticket2.project
  /\ ticket1.labels # ticket2.labels
  /\ ticket1.components # ticket2.components
  /\ score.value > 10000

(* ------------------------------------------------------------------ *)
(* The target lookup                                                  *)
(* ------------------------------------------------------------------ *)

\* C15: when get_ticket yields no ticket, analyze_similarity is over at once:
\* no query is planned, no search call is made, no candidate is scored, and the
\* returned list is empty.
AbortsWhenTargetMissing ==
  /\ pc \notin { "start", "done" } => target_ticket # None
  /\ (pc = "done" /\ target_ticket = None) =>
       /\ search_queries = << >>
       /\ qi = 0
       /\ all_candidates = << >>
       /\ passes = 0
       /\ similar = << >>

\* the call has returned and get_ticket had yielded no ticket
AbortsWhenTargetMissingWitness ==
  /\ pc = "done"
  /\ target_ticket = None

\* C16: a call whose target lookup failed and a call in which no candidate
\* passed never return the same value: the list returned for a target that was
\* found differs from the one returned for a target that was not.
EmptyResultDiffersFromNotFound ==
  (pc = "done" /\ target_ticket # None) => similar # not_found_result

(* ------------------------------------------------------------------ *)
(* Failing searches, query order and the threshold (StoreSpec)        *)
(* ------------------------------------------------------------------ *)

\* C17: a search request that fails (exception of the session, status other
\* than 200, response that cannot be parsed) never ends analyze_similarity: the
\* request hands over no ticket, every planned query is still sent, and the
\* returned list is the one computed from the tickets of the requests that
\* succeeded.
FailedSearchNeverFatal ==
  /\ pc # "raised"
  /\ (target_ticket # None /\ pc \in { "rank", "retry", "done" }) =>
       /\ \A i \in 1..Len(search_queries) :
            \E c \in 1..Len(calls) :
              calls[c].query = search_queries[i] /\ calls[c].scope = "constrained"
       /\ all_candidates = listed_by(calls)
  /\ (target_ticket # None /\ pc = "done") =>
       similar = result_of_pool(target_ticket, listed_by(calls), threshold, max_results)

\* a request that would have listed tickets failed, a later one succeeded, and
\* the call returned a non-empty list
FailedSearchNeverFatalWitness ==
  /\ pc = "done"
  /\ similar # << >>
  /\ \E c, d \in 1..Len(calls) :
       /\ c < d
       /\ calls[c].response # "ok"
       /\ store_answer(calls[c].scope, calls[c].query) # << >>
       /\ calls[d].response = "ok"
       /\ store_answer(calls[d].scope, calls[d].query) # << >>

\* the keys of a returned list, in its order
keys_in_order(entries) == [i \in 1..Len(entries) |-> entries[i].key]

\* C18: with the target, the threshold, max_results and the backend contents
\* fixed and no request failing, the returned list has the same keys in the
\* same order for every order in which the query set is enumerated.
QueryOrderNeverChangesResult ==
  (pc = "done" /\ target_ticket # None /\ failed_calls = 0) =>
    \A listing \in list_of_set(collected_queries(target_ticket)) :
      keys_in_order(result_of_pool(target_ticket, pool_of(take(listing, QueryCap)),
                                   threshold, max_results))
        = keys_in_order(similar)

\* the threshold of the scoring pass that produced the returned list
threshold_in_effect ==
  IF passes = 2 THEN fallback_threshold_of(threshold) ELSE threshold

\* C19: a gated candidate other than the target is in the returned list only
\* if its score is above 0.0 and at least the threshold in effect, and every
\* such candidate is in the list unless max_results cut it.
IncludedIffPositiveAndAboveThreshold ==
  (pc = "done" /\ target_ticket # None) =>
    \A i \in 1..Len(filtered_candidates) :
      filtered_candidates[i].key # target_ticket.key =>
        \A sc \in { calculate_similarity(target_ticket, filtered_candidates[i]) } :
          /\ filtered_candidates[i].key \in keys_of(similar)
               => (sc > 0 /\ sc >= threshold_in_effect)
          /\ (sc > 0 /\ sc >= threshold_in_effect /\ Len(similar) < max_results)
               => filtered_candidates[i].key \in keys_of(similar)

(* ------------------------------------------------------------------ *)
(* The outcome of get_ticket (LookupSpec)                             *)
(* ------------------------------------------------------------------ *)

\* C20: whatever the backend responds to a ticket lookup (any status, a 200
\* body whose fields are present, absent or null, an exception of the session),
\* get_ticket returns a ticket or None: no exception leaves it.
GetTicketNeverRaises ==
  /\ pc \in { "lookup", "returned" }
  /\ pc = "returned" =>
       \/ target_ticket = None
       \/ target_ticket.key = "PLAT-X"

(* ------------------------------------------------------------------ *)
(* The end-to-end scenario (checked under Spec)                       *)
(* ------------------------------------------------------------------ *)

\* C21: for the target "DialogGPT: Repeat Response Event firing incorrectly for
\* imported app", when the search calls return PLAT-Y "DialogGPT task failure
\* event" and PLAT-Z "Admin console migration import", at threshold 0.2 the
\* call returns PLAT-Y and not PLAT-Z, and PLAT-Z does not pass the gate.
ScenarioReturnsYNotZ ==
  ( /\ pc = "done"
    /\ target_ticket = TargetTickets[1]
    /\ threshold = 200000
    /\ max_results >= 1
    /\ SeqToSet(all_candidates) = { BackendTickets[1], BackendTickets[2] } )
  => /\ "PLAT-Y" \in keys_of(similar)
     /\ "PLAT-Z" \notin keys_of(similar)
     /\ "PLAT-Z" \notin keys_of(filtered_candidates)
     /\ "PLAT-Z" \in keys_of(unique_candidates)

\* the scenario has run to its end
ScenarioReturnsYNotZWitness ==
  /\ pc = "done"
  /\ target_ticket = TargetTickets[1]
  /\ threshold = 200000
  /\ max_results >= 1
  /\ all_candidates = << BackendTickets[2], BackendTickets[1] >>
  /\ keys_in_order(similar) = << "PLAT-Y" >>

\* the tickets a logged request handed to analyze_similarity
handed_over(c) ==
  IF calls[c].response = "ok" THEN store_answer(calls[c].scope, calls[c].query)
  ELSE << >>

KeywordsAreExactlyTheKeptTokens ==
  extracted_keywords # None =>
    LET tokens == str_split(preprocess_text(input_text))
        kept(w) == /\ w \notin stop_words
                   /\ Len(w) >= 2
                   /\ w \notin noise_words
                   /\ (w \in technical_terms \/ Len(w) >= 3 \/ w \in always_keep)
    IN  /\ extracted_keywords.value = SelectSeq(tokens, kept)
        /\ \A i \in 1..Len(extracted_keywords.value) :
             extracted_keywords.value[i] \notin stop_words

KeywordsAreExactlyTheKeptTokensWitness ==
  /\ input_text = "The bug is in UI test"
  /\ extracted_keywords # None
  /\ extracted_keywords.value = << "ui" >>
  /\ "bug" \in stop_words \cap always_keep
  /\ "test" \in stop_words \cap technical_terms

\* C24: the text returned by preprocess_text contains none of the generic
\* phrases as a substring, also when the words of a phrase were separated in
\* the input by punctuation or by several whitespace characters.
PreprocessedHoldsNoGenericPhrase ==
  processed_text # None =>
    \A k \in 1..Len(generic_phrases) :
      ~str_contains(processed_text.value, generic_phrases[k])

\* C25: for a resolved, closed or done candidate the context that
\* extract_fix_suggestions stores for each of the groups solution, workaround
\* and root_cause is the window around the first keyword of the group, in
\* listed order, that occurs in the description; a later keyword of the same
\* group that also occurs does not replace it.
ContextOfFirstKeywordIsKept ==
  ( /\ fix_suggestions # None
    /\ str_lower(candidate_ticket.status) \in { "closed", "resolved", "done" } )
  => LET description_text == str_lower(candidate_ticket.description)
         first_context(g) ==
           LET listed == fix_patterns[g].keywords
               hits == { k \in 1..Len(listed) : str_contains(description_text, listed[k]) }
           IN  IF hits = {} THEN None
               ELSE extract_context(description_text, listed[SetMin(hits)])
     IN  /\ fix_suggestions.workaround = first_context(3)
         /\ fix_suggestions.root_cause = first_context(4)
         /\ fix_suggestions.suggested_solution = first_context(5)

\* C26: get_ticket asks API version 2 first and version 3 only when version 2
\* did not answer 200; it returns the ticket built from the first 200
\* response; it returns None only after both versions answered with another
\* status, or after a network error.
FirstOkResponseDecides ==
  LET n == Len(responses)
      ok(i) == responses[i].kind = "http" /\ responses[i].status = 200
      refused(i) == responses[i].kind = "http" /\ responses[i].status # 200
  IN  /\ n <= Len(ApiVersions)
      /\ \A i \in 1..(n - 1) : refused(i)
      /\ \A i \in 1..n : ok(i) => /\ pc = "returned"
                                  /\ target_ticket # None
                                  /\ target_ticket.key = "PLAT-X"
      /\ (pc = "returned" /\ target_ticket = None) =>
           \/ responses[n].kind = "network_error"
           \/ n = Len(ApiVersions) /\ \A i \in 1..n : refused(i)

(* ------------------------------------------------------------------ *)
(* A ticket scored against itself (checked under ScoreSpec)           *)
(* ------------------------------------------------------------------ *)

\* C27 as stated: for all tickets A and B the score of (A, B) is at most the
\* score of (A, A).
SelfScoreIsMaximal ==
  score # None => score.value <= calculate_similarity(ticket1, ticket1)

\* C27: for all tickets A and B, where A has at least one keyword in its
\* summary or description, the score of (A, B) is at most the score of (A, A).
SelfScoreIsMaximalWithKeywords ==
  ( /\ score # None
    /\ keywords_of(ticket1.summary) \o keywords_of(ticket1.description) # << >> )
  => score.value <= calculate_similarity(ticket1, ticket1)

\* a ticket with keywords scored against a different ticket that shares part
\* of them
SelfScoreIsMaximalWithKeywordsWitness ==
  /\ score # None
  /\ keywords_of(ticket1.summary) # << >>
  /\ ticket2.summary # ticket1.summary
  /\ score.value > LengthBonus
  /\ score.value < calculate_similarity(ticket1, ticket1)

\* C28: the retry is executed only when no gated candidate other than the
\* target scored at least the original threshold; when at least one did, for
\* any max_results (0 included), there is no retry and no second scoring pass.
RetryOnlyWhenNoneQualified ==
  ( /\ target_ticket # None
    /\ passes >= 1
    /\ \E i \in 1..Len(filtered_candidates) :
         /\ filtered_candidates[i].key # target_ticket.key
         /\ calculate_similarity(target_ticket, filtered_candidates[i]) >= threshold )
  => (pc = "done" /\ passes = 1)

\* C29: the threshold the retry uses, max(0.1, threshold - 0.1), is never
\* greater than the original threshold, for every threshold value.
FallbackThresholdNeverAbove ==
  passes = 2 => fallback_threshold_of(threshold) <= threshold

\* C30: when the target's summary yields no subject term (an empty summary,
\* for one), analyze_similarity returns the empty list whatever the searches
\* return and whatever threshold and max_results are, and the retry is not
\* executed.
NoSubjectTermsNoResult ==
  ( /\ target_ticket # None
    /\ subject_terms_of(target_ticket.summary) = {}
    /\ passes >= 1 )
  => /\ filtered_candidates = << >>
     /\ similar = << >>
     /\ pc = "done"
     /\ passes = 1

\* the searches of such a target returned another ticket whose score reaches
\* the threshold
NoSubjectTermsNoResultWitness ==
  /\ pc = "done"
  /\ target_ticket # None
  /\ subject_terms_of(target_ticket.summary) = {}
  /\ max_results > 0
  /\ \E i \in 1..Len(unique_candidates) :
       /\ unique_candidates[i].key # target_ticket.key
       /\ calculate_similarity(target_ticket, unique_candidates[i]) >= threshold
       /\ threshold > 0

====
